---- MODULE Spec2Model ----
(***************************************************************************)
(* Model of the LangGraph copywriting workflow of graph_agent.py: the      *)
(* request model of models.py, the six node functions, the graph edges,    *)
(* and CopywritingGraphAgent.generate_content, which runs the graph and    *)
(* builds the ContentResponse.                                             *)
(*                                                                         *)
(* The collaborators (search API, language model, NLTK-backed scorer) are  *)
(* inputs: each call returns one of a small set of outcomes or raises.     *)
(* Python values are encoded as follows: None of a string field is the     *)
(* sentinel None, an Optional dict or int is a sequence of length 0 or 1,  *)
(* a dict is a function whose DOMAIN is its key set.                       *)
(*                                                                         *)
(* SpecAnalyzer runs SEOAnalyzer.analyze of seo_analysis.py alone, on texts *)
(* given as lines of tokens and with exact rational arithmetic; SpecFrames *)
(* runs extract_frames of video_utils.py alone.                            *)
(***************************************************************************)
EXTENDS Integers, Sequences, FiniteSets, TLC

VARIABLES env, request, pc, state, trace, modelCalls, searchCalls, response, outcome,
          scorerCalls, az, fr

vars == <<env, request, pc, state, trace, modelCalls, searchCalls, response, outcome,
          scorerCalls, az, fr>>

\* ------------------------------------------------------------------ bounds
\* Upper bound on the number of node executions of one run (the graph has a
\* structural back edge optimize_seo -> generate_content).
MaxTrace == 12

\* Frame extraction: the largest frame count of a video and the largest
\* max_frames asked for.
MaxTotalFrames == 8
MaxMaxFrames == 5

\* ------------------------------------------------------- python encodings
None == "<None>"
Raise == "<raise>"
Missing == "<missing>"

\* Truthiness of an Optional[str]: None and "" are falsy.
Truthy(s) == s # None /\ s # ""

\* Python `a or b` on Optional[str] values.
Or(a, b) == IF Truthy(a) THEN a ELSE b

\* {**d, k: v}
DictSet(d, k, v) == [x \in (DOMAIN d) \cup {k} |-> IF x = k THEN v ELSE d[x]]

\* LangGraph merges a node's partial update into the state, key by key
\* (AgentState declares no reducers, so a returned key overwrites).
\* A merge that resets the error key when the update does not carry it.
Merge_clearing_error(s, u) ==
    [k \in DOMAIN s |-> IF k \in DOMAIN u THEN u[k] ELSE IF k = "error" THEN None ELSE s[k]]

Merge(s, u) == [k \in DOMAIN s |-> IF k \in DOMAIN u THEN u[k] ELSE s[k]]

\* ------------------------------------------------------------ input sets
Topics == {Missing, "", "ai tools"}
WordCounts == {<<>>, <<-5>>, <<500>>}

\* Values of ToneType and AudienceType; the defaults are "conversational"
\* and "general".
Tones == {"conversational", "professional"}

Audiences == {"general", "technical"}
ContentTypes == {"blog_post", "custom"}

\* ContentRequest.keywords: a list of keywords, each the sequence of its words.
KeywordLists == {<<>>, << <<"seo">> >>}

\* What the search collaborator can do: raise, or return a list.
SearchOutcomes == {Raise, "[]", "[r1]"}

\* What one llm.invoke can do: raise, or return response.content.
LlmOutcomes == {Raise, "", "text A", "text B"}

\* if seo_analysis["overall_score"] >= 85
SkipThreshold == 85

\* overall_score values the scorer can hand to the workflow.
Scores == {0, SkipThreshold - 1, SkipThreshold, SkipThreshold + 5}

\* ---------------------------------------------------------- models.py
\* pydantic validation of ContentRequest: topic is a required str field with
\* no further constraint, word_count is Optional[int] with no constraint.
ContentRequestValid(topic, word_count) == topic # Missing

NoRequest == [content_type |-> "custom", topic |-> Missing, tone |-> "conversational",
              audience |-> "general", word_count |-> <<>>,
              include_research |-> FALSE, keywords |-> <<>>]

\* -------------------------------------------------------- graph_agent.py
GeminiModel == "gemini-1.5-pro-latest"

initialize_state(content_request) ==
    [content_request |-> content_request,
     research_results |-> None,
     prompt |-> None,
     content |-> None,
     enhanced_content |-> None,
     seo_analysis |-> <<>>,
     seo_optimized_content |-> None,
     metadata |-> [content_type |-> content_request.content_type,
                   topic |-> content_request.topic,
                   tone |-> content_request.tone,
                   audience |-> content_request.audience,
                   word_count |-> content_request.word_count,
                   model_used |-> GeminiModel],
     status |-> "initialized",
     error |-> None]

NoState == initialize_state(NoRequest)

\* A node returns its partial update together with the collaborator calls it
\* made: search (BOOLEAN), llm (sequence of the inputs it invoked with) and
\* scorer (sequence of the SEOAnalyzer.analyze calls).
Node(update, search, llm) ==
    [update |-> update, search |-> search, llm |-> llm, scorer |-> <<>>]

\* perform_research without the include_research check.
perform_research_always_searches(s, searchOut) ==
    IF searchOut = Raise
    THEN Node([research_results |-> None, status |-> "research_failed",
               error |-> "search error"], TRUE, <<>>)
    ELSE Node([research_results |-> searchOut, status |-> "research_completed"],
              TRUE, <<>>)

perform_research(s, searchOut) ==
    IF ~s.content_request.include_research
    THEN Node([research_results |-> None, status |-> "research_skipped"], FALSE, <<>>)
    ELSE IF searchOut = Raise
         THEN Node([research_results |-> None, status |-> "research_failed",
                    error |-> "search error"], TRUE, <<>>)
         ELSE Node([research_results |-> searchOut, status |-> "research_completed"],
                   TRUE, <<>>)

\* generate_copywriting_prompt iterating research_results without the
\* `if research_results` guard: it raises on None.
generate_copywriting_prompt_unguarded(content_request, research_results) ==
    IF env.prompt_raises \/ research_results = None THEN Raise
    ELSE IF research_results # "[]"
         THEN "prompt with research"
         ELSE "prompt"

\* prompt_engineering.generate_copywriting_prompt: the research section is
\* appended only `if research_results`; an exception escaping the assembly
\* is the environment fault env.prompt_raises.
generate_copywriting_prompt(content_request, research_results) ==
    IF env.prompt_raises THEN Raise
    ELSE IF research_results # None /\ research_results # "[]"
         THEN "prompt with research"
         ELSE "prompt"

generate_prompt(s) ==
    LET p == generate_copywriting_prompt(s.content_request, s.research_results)
    IN IF p = Raise
       THEN Node([prompt |-> None, status |-> "prompt_generation_failed",
                  error |-> "prompt error"], FALSE, <<>>)
       ELSE Node([prompt |-> p, status |-> "prompt_generated"], FALSE, <<>>)

KeyError == "GOOGLE_API_KEY not found in environment variables"

generate_content(s, llmOut) ==
    IF ~env.api_key
    THEN Node([content |-> None, status |-> "content_generation_failed",
               error |-> KeyError], FALSE, <<>>)
    ELSE IF s.prompt = None
         \* HumanMessage(content=None) fails validation before llm.invoke
         THEN Node([content |-> None, status |-> "content_generation_failed",
                    error |-> "validation error"], FALSE, <<>>)
         ELSE IF llmOut = Raise
              THEN Node([content |-> None, status |-> "content_generation_failed",
                         error |-> "model error"], FALSE, <<s.prompt>>)
              ELSE Node([content |-> llmOut, status |-> "content_generated",
                         metadata |-> DictSet(s.metadata, "model_used", GeminiModel)],
                        FALSE, <<s.prompt>>)

\* apply_direct_response_principles whose except branch drops the content
\* instead of falling back to it.
apply_direct_response_principles_no_fallback(s, llmOut) ==
    IF ~env.api_key
    THEN Node([enhanced_content |-> None, status |-> "enhancement_failed",
               error |-> KeyError], FALSE, <<>>)
    ELSE IF llmOut = Raise
         THEN Node([enhanced_content |-> None, status |-> "enhancement_failed",
                    error |-> "model error"], FALSE, <<s.content>>)
         ELSE Node([enhanced_content |-> llmOut, status |-> "content_enhanced"],
                   FALSE, <<s.content>>)

\* The enhancement prompt is an f-string around state["content"]; a None
\* content is formatted into it, so the model is invoked all the same.
apply_direct_response_principles(s, llmOut) ==
    IF ~env.api_key
    THEN Node([enhanced_content |-> s.content, status |-> "enhancement_failed",
               error |-> KeyError], FALSE, <<>>)
    ELSE IF llmOut = Raise
         THEN Node([enhanced_content |-> s.content, status |-> "enhancement_failed",
                    error |-> "model error"], FALSE, <<s.content>>)
         ELSE Node([enhanced_content |-> llmOut, status |-> "content_enhanced"],
                   FALSE, <<s.content>>)

\* The text analyze_seo scores, with content taking priority.
AnalyzedContent_content_first(s) == Or(s.content, s.enhanced_content)

\* content = state["enhanced_content"] or state["content"]
AnalyzedContent(s) == Or(s.enhanced_content, s.content)

\* content_request.keywords or []
RequestKeywords(content_request) == content_request.keywords

\* analyze_seo answering a failure of the scorer with a default analysis.
analyze_seo_default_on_failure(s, score) ==
    LET content == AnalyzedContent(s)
    IN IF ~Truthy(content)
       THEN Node([seo_analysis |-> <<>>, status |-> "seo_analysis_skipped",
                  error |-> "No content available for SEO analysis"], FALSE, <<>>)
       ELSE IF ~env.stopwords
            THEN Node([seo_analysis |-> <<[overall_score |-> 50]>>,
                       status |-> "seo_analysis_failed",
                       error |-> "lookup error"], FALSE, <<>>)
            ELSE [Node(IF ~env.punkt
                       THEN [seo_analysis |-> <<[overall_score |-> 50]>>,
                             status |-> "seo_analysis_failed",
                             error |-> "lookup error"]
                       ELSE [seo_analysis |-> <<[overall_score |-> score]>>,
                             status |-> "seo_analysis_completed"], FALSE, <<>>)
                  EXCEPT !.scorer =
                      <<[content |-> content,
                         target_keywords |-> RequestKeywords(s.content_request),
                         content_type |-> s.content_request.content_type]>>]

\* SEOAnalyzer() loads the NLTK stop-word corpus; it raises LookupError when
\* the corpus is not installed, before analyze is reached.  analyze is then
\* called with the text, the keywords and the content type, and raises
\* LookupError in sent_tokenize when the Punkt model is not installed.  Both
\* end in the except branch.  The analysis the workflow reads is its
\* overall_score.
analyze_seo(s, score) ==
    LET content == AnalyzedContent(s)
    IN IF ~Truthy(content)
       THEN Node([seo_analysis |-> <<>>, status |-> "seo_analysis_skipped",
                  error |-> "No content available for SEO analysis"], FALSE, <<>>)
       ELSE IF ~env.stopwords
            THEN Node([seo_analysis |-> <<>>, status |-> "seo_analysis_failed",
                       error |-> "lookup error"], FALSE, <<>>)
            ELSE [Node(IF ~env.punkt
                       THEN [seo_analysis |-> <<>>, status |-> "seo_analysis_failed",
                             error |-> "lookup error"]
                       ELSE [seo_analysis |-> <<[overall_score |-> score]>>,
                             status |-> "seo_analysis_completed"], FALSE, <<>>)
                  EXCEPT !.scorer =
                      <<[content |-> content,
                         target_keywords |-> RequestKeywords(s.content_request),
                         content_type |-> s.content_request.content_type]>>]

\* The skip test with a strict comparison.
SkipOptimization_strict(score) == score > SkipThreshold

\* if seo_analysis["overall_score"] >= 85
SkipOptimization(score) == score >= SkipThreshold

\* The improvement prompt written around the generation prompt.
get_seo_improvement_prompt_without_content(analysis_results, content) ==
    [task |-> "SEO Improvement Task", content |-> "prompt",
     overall_score |-> analysis_results.overall_score]

\* SEOAnalyzer.get_seo_improvement_prompt: the task text around the content
\* and the figures of the analysis.
get_seo_improvement_prompt(analysis_results, content) ==
    [task |-> "SEO Improvement Task", content |-> content,
     overall_score |-> analysis_results.overall_score]

\* An except branch that drops the text.
FallbackContent_none(s) == None

\* state["enhanced_content"] or state["content"] in the except branch
FallbackContent(s) == Or(s.enhanced_content, s.content)

\* Below the threshold the node constructs SEOAnalyzer() anew, which loads
\* the stop-word corpus again, then builds the prompt, reads the key and
\* invokes the model; whatever raises on the way ends in the except branch.
optimize_seo(s, llmOut) ==
    LET content == Or(s.enhanced_content, s.content)
    IN IF ~Truthy(content) \/ s.seo_analysis = <<>>
       THEN Node([seo_optimized_content |-> content,
                  status |-> "seo_optimization_skipped"], FALSE, <<>>)
       ELSE LET score == s.seo_analysis[1].overall_score
                seo_prompt == get_seo_improvement_prompt(s.seo_analysis[1], content)
            IN IF SkipOptimization(score)
               THEN Node([seo_optimized_content |-> content,
                          status |-> "seo_optimization_skipped",
                          metadata |-> DictSet(s.metadata, "seo_score", score)],
                         FALSE, <<>>)
               ELSE IF ~env.stopwords
                    THEN Node([seo_optimized_content |-> FallbackContent(s),
                               status |-> "seo_optimization_failed",
                               error |-> "lookup error"], FALSE, <<>>)
               ELSE IF ~env.api_key
                    THEN Node([seo_optimized_content |-> FallbackContent(s),
                               status |-> "seo_optimization_failed",
                               error |-> KeyError], FALSE, <<>>)
                    ELSE IF llmOut = Raise
                         THEN Node([seo_optimized_content |-> FallbackContent(s),
                                    status |-> "seo_optimization_failed",
                                    error |-> "model error"], FALSE, <<seo_prompt>>)
                         ELSE Node([seo_optimized_content |-> llmOut,
                                    status |-> "seo_optimization_completed",
                                    metadata |-> DictSet(s.metadata, "seo_score", score)],
                                   FALSE, <<seo_prompt>>)

\* A refinement policy that sends a failed optimization back for another pass.
should_refine_content_on_failure(s) ==
    IF s.status = "seo_optimization_failed" THEN "refine" ELSE "complete"

should_refine_content(s) == "complete"

\* A graph with an edge from a failed enhancement back to generate_content.
NextNode_retry_generation(node, s) ==
    CASE node = "research" -> "generate_prompt"
      [] node = "generate_prompt" -> "generate_content"
      [] node = "generate_content" -> "enhance_content"
      [] node = "enhance_content" ->
            IF s.status = "enhancement_failed" THEN "generate_content" ELSE "analyze_seo"
      [] node = "analyze_seo" -> "optimize_seo"
      [] node = "optimize_seo" ->
            IF should_refine_content(s) = "refine" THEN "generate_content" ELSE "END"

\* _build_graph: the unconditional edges, and the conditional edge after
\* optimize_seo ({"refine": "generate_content", "complete": END}).
NextNode(node, s) ==
    CASE node = "research" -> "generate_prompt"
      [] node = "generate_prompt" -> "generate_content"
      [] node = "generate_content" -> "enhance_content"
      [] node = "enhance_content" -> "analyze_seo"
      [] node = "analyze_seo" -> "optimize_seo"
      [] node = "optimize_seo" ->
            IF should_refine_content(s) = "refine" THEN "generate_content" ELSE "END"

\* The priority chain read in the opposite order.
\* The final content taken from seo_optimized_content alone.
FinalContent_optimized_only(s) == Or(s.seo_optimized_content, "")

FinalContent_reversed(s) ==
    Or(s.content, Or(s.enhanced_content, Or(s.seo_optimized_content, "")))

\* final_state.get("seo_optimized_content") or ... or ""
FinalContent(s) == Or(s.seo_optimized_content, Or(s.enhanced_content, Or(s.content, "")))

\* metadata["seo_score"] = ... if final_state.get("seo_analysis")
FinalMetadata(s) ==
    IF s.seo_analysis # <<>>
    THEN DictSet(s.metadata, "seo_score", s.seo_analysis[1].overall_score)
    ELSE s.metadata

ContentResponse(s) ==
    [content |-> FinalContent(s),
     metadata |-> FinalMetadata(s),
     research_results |-> s.research_results]

\* ------------------------------------------------------------- numbers
\* The one element of a singleton set.  {e(x) : x \in {v}} evaluates v once
\* and e on its value: the operators below use it where Python evaluates an
\* argument or an assignment once.
The(S) == CHOOSE x \in S : TRUE

\* Python ints and floats are exact rationals [n, d] in lowest terms with
\* d > 0; a rational with d = 0 stands for a raised ZeroDivisionError.
RECURSIVE Gcd(_, _)
Gcd(a, b) == IF b = 0 THEN a ELSE Gcd(b, a % b)

Abs(x) == IF x < 0 THEN -x ELSE x

ZeroDivisionError == [n |-> 0, d |-> 0]

Rat(n, d) ==
    IF d = 0 THEN ZeroDivisionError
    ELSE The({[n |-> (IF d < 0 THEN -1 ELSE 1) * (n \div g),
               d |-> (IF d < 0 THEN -1 ELSE 1) * (d \div g)] : g \in {Gcd(Abs(n), Abs(d))}})

Num(k) == [n |-> k, d |-> 1]

RAdd(a, b) ==
    The({IF x.d = 0 \/ y.d = 0 THEN ZeroDivisionError
         ELSE The({Rat(x.n * (y.d \div g) + y.n * (x.d \div g), (x.d \div g) * y.d) :
                   g \in {Gcd(x.d, y.d)}}) :
         x \in {a}, y \in {b}})

RNeg(a) == The({[n |-> -x.n, d |-> x.d] : x \in {a}})

RSub(a, b) == RAdd(a, RNeg(b))

RMul(a, b) ==
    The({IF x.d = 0 \/ y.d = 0 THEN ZeroDivisionError
         ELSE IF x.n = 0 \/ y.n = 0 THEN Num(0)
         ELSE The({[n |-> (x.n \div g1) * (y.n \div g2),
                    d |-> (x.d \div g2) * (y.d \div g1)] :
                   g1 \in {Gcd(Abs(x.n), y.d)}, g2 \in {Gcd(Abs(y.n), x.d)}}) :
         x \in {a}, y \in {b}})

\* a / b
RDiv(a, b) ==
    The({IF x.d = 0 \/ y.d = 0 \/ y.n = 0 THEN ZeroDivisionError
         ELSE RMul(x, Rat(y.d, y.n)) :
         x \in {a}, y \in {b}})

\* a <= b and a < b (both operands are numbers, never ZeroDivisionError)
RLe(a, b) ==
    \E x \in {a}, y \in {b} :
        \E g \in {Gcd(x.d, y.d)} : x.n * (y.d \div g) <= y.n * (x.d \div g)

RLt(a, b) ==
    \E x \in {a}, y \in {b} :
        \E g \in {Gcd(x.d, y.d)} : x.n * (y.d \div g) < y.n * (x.d \div g)

RMin(a, b) == The({IF RLe(x, y) THEN x ELSE y : x \in {a}, y \in {b}})

RMax(a, b) == The({IF RLe(x, y) THEN y ELSE x : x \in {a}, y \in {b}})

\* ------------------------------------------------------------ text model
\* A text is a non-empty sequence of lines joined by "\n" ("" is the single
\* empty line); a line is a sequence of tokens joined by one space, except
\* that the token "." is written attached to the token before it.  A line
\* whose first token is "#", "##" or "###" and that has more tokens is a
\* markdown heading.
EmptyText == << <<>> >>

Markers == {"#", "##", "###"}

\* Tokens that stand for markdown constructs and the meta-description marker.
MetaToken == "description:"
ImageToken == "![alt](img.png)"
InternalLinkToken == "[more](/guide)"
ExternalLinkToken == "[src](https://x.io)"

\* The characters of a token.
Letters(tok) ==
    CASE tok = "seo" -> <<"s", "e", "o">>
      [] tok = "SEO" -> <<"S", "E", "O">>
      [] tok = "tips" -> <<"t", "i", "p", "s">>
      [] tok = "the" -> <<"t", "h", "e">>
      [] tok = "guide" -> <<"g", "u", "i", "d", "e">>
      [] tok = "content" -> <<"c", "o", "n", "t", "e", "n", "t">>
      [] tok = "optimization" ->
            <<"o", "p", "t", "i", "m", "i", "z", "a", "t", "i", "o", "n">>
      [] tok = "description" ->
            <<"d", "e", "s", "c", "r", "i", "p", "t", "i", "o", "n">>
      [] tok = "alt" -> <<"a", "l", "t">>
      [] tok = "more" -> <<"m", "o", "r", "e">>
      [] tok = "src" -> <<"s", "r", "c">>
      [] tok = "https" -> <<"h", "t", "t", "p", "s">>
      [] tok = "." -> <<".">>
      [] tok = "#" -> <<"#">>
      [] tok = "##" -> <<"#", "#">>
      [] tok = "###" -> <<"#", "#", "#">>
      [] tok = MetaToken ->
            <<"d", "e", "s", "c", "r", "i", "p", "t", "i", "o", "n", ":">>
      [] tok = ImageToken ->
            <<"!", "[", "a", "l", "t", "]", "(", "i", "m", "g", ".", "p", "n", "g", ")">>
      [] tok = InternalLinkToken ->
            <<"[", "m", "o", "r", "e", "]", "(", "/", "g", "u", "i", "d", "e", ")">>
      [] tok = ExternalLinkToken ->
            <<"[", "s", "r", "c", "]", "(", "h", "t", "t", "p", "s", ":", "/", "/",
              "x", ".", "i", "o", ")">>

\* str.lower() of a token.
Lower(tok) == IF tok = "SEO" THEN "seo" ELSE tok

\* The alphanumeric tokens word_tokenize yields for a token (str.isalnum).
AlnumWords(tok) ==
    CASE tok \in Markers \cup {"."} -> <<>>
      [] tok = MetaToken -> <<"description">>
      [] tok = ImageToken -> <<"alt">>
      [] tok = InternalLinkToken -> <<"more">>
      [] tok = ExternalLinkToken -> <<"src", "https">>
      [] OTHER -> <<tok>>

\* The number of matches of \b\w+\b inside a token.
RegexWords(tok) ==
    CASE tok \in Markers \cup {"."} -> 0
      [] tok = MetaToken -> 1
      [] tok = ImageToken -> 3
      [] tok = InternalLinkToken -> 2
      [] tok = ExternalLinkToken -> 4
      [] OTHER -> 1

\* nltk.corpus.stopwords.words("english"), restricted to the vocabulary.
StopWords == {"the", "more"}

\* The concatenation of the sequences seqs[lo..hi] (computed by halves).
RECURSIVE FlattenRange(_, _, _)
FlattenRange(seqs, lo, hi) ==
    IF lo > hi THEN <<>>
    ELSE IF lo = hi THEN seqs[lo]
    ELSE The({FlattenRange(seqs, lo, mid) \o FlattenRange(seqs, mid + 1, hi) :
              mid \in {(lo + hi) \div 2}})

Flatten(seqs) == The({FlattenRange(v, 1, Len(v)) : v \in {seqs \o <<>>}})

\* The sum of the numbers ns[lo..hi] (computed by halves).
RECURSIVE SumRange(_, _, _)
SumRange(ns, lo, hi) ==
    IF lo > hi THEN 0
    ELSE IF lo = hi THEN ns[lo]
    ELSE The({SumRange(ns, lo, mid) + SumRange(ns, mid + 1, hi) :
              mid \in {(lo + hi) \div 2}})

SumSeq(ns) == The({SumRange(v, 1, Len(v)) : v \in {ns \o <<>>}})

\* n copies of a token
Rep(tok, n) == [i \in 1..n |-> tok]

IsPrefix(p, s) == Len(p) <= Len(s) /\ SubSeq(s, 1, Len(p)) = p

IsSuffix(p, s) == Len(p) <= Len(s) /\ SubSeq(s, Len(s) - Len(p) + 1, Len(s)) = p

IsInfix(p, s) == \E i \in 0..(Len(s) - Len(p)) : SubSeq(s, i + 1, i + Len(p)) = p

\* The line is a marker, whitespace and more text: a "." is written attached
\* to the token before it, so a "." right after the marker is no heading.
IsHeading(line) == Len(line) >= 2 /\ line[1] \in Markers /\ line[2] # "."

\* The line is a marker and nothing else.
IsBareMarker(line) == Len(line) = 1 /\ line[1] \in Markers

\* All tokens of the text in order.
Tokens(text) == Flatten(text)

\* re.findall(r"\b\w+\b", content.lower())
WordCount(text) ==
    The({SumSeq([i \in 1..Len(toks) |-> RegexWords(toks[i])]) : toks \in {Tokens(text)}})

\* word_tokenize(content) filtered by str.isalnum
AlnumTokens(text) ==
    The({Flatten([i \in 1..Len(toks) |-> AlnumWords(toks[i])]) : toks \in {Tokens(text)}})

\* The base of a chunk that consists of "." only.
NoBase == "<none>"

\* The chunks of a line, a chunk being what is written between two white
\* spaces: a token (the base) with the "." tokens written after it, or the
\* "." tokens a line starts with.
LineChunks(line) ==
    The({(IF Len(line) > 0 /\ (heads = <<>> \/ heads[1] > 1)
          THEN <<[base |-> NoBase,
                  dots |-> IF heads = <<>> THEN Len(line) ELSE heads[1] - 1]>>
          ELSE <<>>)
         \o [j \in 1..Len(heads) |->
                [base |-> line[heads[j]],
                 dots |-> (IF j < Len(heads) THEN heads[j + 1] ELSE Len(line) + 1)
                          - heads[j] - 1]] :
         heads \in {SelectSeq([i \in 1..Len(line) |-> i], LAMBDA i : line[i] # ".")}})

Chunks(text) == Flatten([l \in 1..Len(text) |-> LineChunks(text[l])])

\* len(sent_tokenize(content)), the Punkt sentence tokenizer of NLTK on the
\* vocabulary of the model, none of whose words is an abbreviation, a
\* collocation or a sentence starter of its English parameters.  A sentence
\* may end at a "!" followed by a bracket (the "!" of an image) and at the
\* last "." of a chunk that has a chunk after it; the tokenizer looks at the
\* word around such a place and breaks when it holds a sentence-ending
\* token with a token after it: a word with one "." (two or more "." are an
\* ellipsis, which ends no sentence) or the "!" of an image.  The "!" of an
\* image that is followed by a "." in its chunk is not looked at when the
\* text starts with a single line break right before it.  The rest of a
\* text that has any chunk is one more sentence.
SentenceCount(text) ==
    The({Cardinality({i \in 1..Len(c) :
                         /\ c[i].base = ImageToken
                         /\ ~(/\ i = 1 /\ c[i].dots >= 1 /\ Len(c) >= 2
                               /\ Len(text) >= 2 /\ text[1] = <<>> /\ text[2] # <<>>)})
         + Cardinality({i \in 1..(Len(c) - 1) :
                           /\ c[i].dots >= 1
                           /\ \/ c[i].dots = 1
                              \/ c[i].base = ImageToken
                              \/ c[i + 1].base = ImageToken})
         + (IF c # <<>> THEN 1 ELSE 0) :
         c \in {Chunks(text)}})

\* len(re.split(r"\n\s*\n", content)): every maximal run of newlines that
\* holds at least two of them (the lines in between being empty) separates.
ParagraphCount(text) ==
    LET n == Len(text)
        blank(i) == text[i] = <<>>
        \* a run of blank lines i..j, maximal
        runs == {r \in (1..n) \X (1..n) :
                    /\ r[1] <= r[2]
                    /\ \A k \in r[1]..r[2] : blank(k)
                    /\ (r[1] = 1 \/ ~blank(r[1] - 1))
                    /\ (r[2] = n \/ ~blank(r[2] + 1))}
        \* newlines around the run: one per blank line, plus one when the run
        \* has a line before it and a line after it
        newlines(r) == (r[2] - r[1] + 1) - 1
                       + (IF r[1] > 1 THEN 1 ELSE 0) + (IF r[2] < n THEN 1 ELSE 0)
    IN 1 + Cardinality({r \in runs : newlines(r) >= 2})

\* content.split("\n")[0]
FirstLine(text) == text[1]

\* The places where content.split("\n\n") cuts, each named by the empty line
\* e that lies between the two line breaks of the separator.  Line breaks
\* that follow one another form a run starting after line b (the last
\* non-empty line before them, or the first line); split pairs them from
\* the left, so the line breaks around e are a pair when e - b is odd.
ParagraphBreaks(text) ==
    {e \in 2..(Len(text) - 1) :
        /\ text[e] = <<>>
        /\ \E b \in 1..(e - 1) :
              /\ b = 1 \/ text[b] # <<>>
              /\ \A k \in (b + 1)..(e - 1) : text[k] = <<>>
              /\ (e - b) % 2 = 1}

\* content.split("\n\n")[0]: the lines before the first separator.
FirstParagraph(text) ==
    \* every line of text when there is no separator
    The({IF cuts = {} THEN text
         ELSE SubSeq(text, 1, (CHOOSE j \in cuts : \A k \in cuts : j <= k) - 1) :
         cuts \in {ParagraphBreaks(text)}})

\* content.split("\n\n")[-1]: the lines after the last separator; after an
\* odd number of line breaks the piece starts with an empty line.
LastParagraph(text) ==
    The({IF cuts = {} THEN text
         ELSE SubSeq(text, (CHOOSE j \in cuts : \A k \in cuts : j >= k) + 1, Len(text)) :
         cuts \in {ParagraphBreaks(text)}})

\* The text of the headings matched by ^(marker)\s+(.+)$ for the given
\* markers, found as re.findall finds them, from the top and without
\* overlap.  \s+ also matches line breaks: a marker alone on its line takes
\* the next non-empty line, whole, as its heading text.
Headings(text, markers) ==
    LET RECURSIVE collect(_)
        collect(i) ==
            IF i > Len(text) THEN <<>>
            ELSE IF IsHeading(text[i]) /\ text[i][1] \in markers
                 THEN <<Tail(text[i])>> \o collect(i + 1)
                 ELSE IF IsBareMarker(text[i]) /\ text[i][1] \in markers
                      THEN LET later == {j \in (i + 1)..Len(text) : text[j] # <<>>}
                           IN IF later = {} THEN <<>>
                              ELSE The({<<text[j]>> \o collect(j + 1) :
                                        j \in {CHOOSE j \in later : \A k \in later : j <= k}})
                      ELSE collect(i + 1)
    IN collect(1)

\* len() of a line written out: the characters of its tokens and the spaces
\* between them (none before a ".").
LineLength(line) ==
    SumSeq([i \in 1..Len(line) |->
               Len(Letters(line[i])) + (IF i > 1 /\ line[i] # "." THEN 1 ELSE 0)])

\* ------------------------------------------------------- seo_analysis.py
\* The keyword lower-cased, word by word; a keyword is the sequence of its
\* space-separated words.
LowerKw(kw) == [i \in 1..Len(kw) |-> Lower(kw[i])]

LowerLetters(tok) == Letters(Lower(tok))

\* The lower-cased keyword occurs in the lower-cased line at token i: its
\* first word ends token i, its last word starts token i + k - 1 and the
\* words in between are whole tokens.
MatchAt(kw, line, i) ==
    LET k == Len(kw)
    IN /\ i + k - 1 <= Len(line)
       /\ IF k = 1 THEN IsInfix(LowerLetters(kw[1]), LowerLetters(line[i]))
          ELSE /\ IsSuffix(LowerLetters(kw[1]), LowerLetters(line[i]))
               /\ IsPrefix(LowerLetters(kw[k]), LowerLetters(line[i + k - 1]))
               /\ \A j \in 2..(k - 1) : Lower(kw[j]) = Lower(line[i + j - 1])

\* keyword.lower() in <line>.lower()
KwInLine(kw, line) == \E i \in 1..Len(line) : MatchAt(kw, line, i)

KwInLines(kw, lines) == \E l \in 1..Len(lines) : KwInLine(kw, lines[l])

\* str.count: occurrences found scanning left to right, each search
\* resuming after the previous match.
RECURSIVE CountInLine(_, _, _)
CountInLine(kw, line, i) ==
    The({IF found = {} THEN 0
         ELSE The({1 + CountInLine(kw, line, first + Len(kw)) :
                   first \in {CHOOSE j \in found : \A k \in found : j <= k}}) :
         found \in {{j \in i..Len(line) : MatchAt(kw, line, j)}}})

SubstringCount(kw, text) ==
    SumSeq([l \in 1..Len(text) |-> CountInLine(kw, text[l], 1)])

\* The sum of the values of a dict of numbers.
RECURSIVE SumValues(_)
SumValues(d) ==
    IF DOMAIN d = {} THEN 0
    ELSE LET k == CHOOSE x \in DOMAIN d : TRUE
         IN d[k] + SumValues([x \in DOMAIN d \ {k} |-> d[x]])

\* The density computed without the test for an empty text.
Density_unguarded(count, total_words) ==
    RMul(RDiv(Num(count), Num(total_words)), Num(100))

\* (count / total_words) * 100 if total_words > 0 else 0
Density(count, total_words) ==
    IF total_words > 0 THEN RMul(RDiv(Num(count), Num(total_words)), Num(100))
    ELSE Num(0)

LowDensity == Rat(5, 10)
HighDensity == Rat(25, 10)

\* The range with both ends excluded.
OptimalDensity_exclusive(density) == RLt(LowDensity, density) /\ RLt(density, HighDensity)

\* 0.5 <= density <= 2.5
OptimalDensity(density) == RLe(LowDensity, density) /\ RLe(density, HighDensity)

\* words = [word.lower() for word in word_tokenize(content) if
\* word.isalnum()], without the stop words
FilteredWords(text) ==
    The({SelectSeq([i \in 1..Len(words) |-> Lower(words[i])],
                   LAMBDA w : w \notin StopWords) :
         words \in {AlnumTokens(text)}})

\* The count of a keyword: str.count of the phrase for a keyword with a
\* space, the frequency of the word among the filtered words otherwise.
KeywordCount(text, keyword, filtered) ==
    IF Len(keyword) > 1 THEN SubstringCount(keyword, text)
    ELSE Cardinality({i \in 1..Len(filtered) : filtered[i] = Lower(keyword[1])})

MostCommonLimit == 10

\* dict(word_freq.most_common(10)): the ten most frequent filtered words with
\* their counts, words of equal count in the order of their first
\* occurrence.
TopTerms(filtered) ==
    The({The({[w \in {filtered[c[1]] :
                        c \in {c \in counts :
                                  Cardinality({o \in counts :
                                      \/ o[2] > c[2]
                                      \/ (o[2] = c[2] /\ o[1] < c[1])}) < MostCommonLimit}} |->
                  (CHOOSE c \in counts : filtered[c[1]] = w)[2]] :
              counts \in {{<<i, Cardinality({j \in 1..Len(filtered) :
                                                 filtered[j] = filtered[i]})>> :
                              i \in firsts}}}) :
         firsts \in {{i \in 1..Len(filtered) :
                         \A j \in 1..(i - 1) : filtered[j] # filtered[i]}}})

\* The metrics of one keyword (the body of the loop of _analyze_keywords).
KeywordMetric(text, keyword) ==
    The({The({[count |-> count,
               density |-> density,
               in_title |-> text # EmptyText /\ KwInLine(keyword, FirstLine(text)),
               in_headings |-> KwInLines(keyword, Headings(text, Markers)),
               in_first_paragraph |->
                   text # EmptyText /\ KwInLines(keyword, FirstParagraph(text)),
               in_last_paragraph |->
                   text # EmptyText /\ KwInLines(keyword, LastParagraph(text)),
               optimal_density |-> density.d # 0 /\ OptimalDensity(density)] :
              count \in {KeywordCount(text, keyword, filtered)},
              density \in {Density(KeywordCount(text, keyword, filtered), Len(filtered))}}) :
         filtered \in {FilteredWords(text)}})

\* The points of one keyword with a single point for the title.
KeywordPoints_flat(m) ==
    (IF m.count > 0 THEN 1 ELSE 0) + (IF m.in_title THEN 1 ELSE 0)
    + (IF m.in_headings THEN 1 ELSE 0) + (IF m.in_first_paragraph THEN 1 ELSE 0)
    + (IF m.optimal_density THEN 1 ELSE 0)

\* The points one keyword adds to keyword_score.
KeywordPoints(m) ==
    (IF m.count > 0 THEN 1 ELSE 0) + (IF m.in_title THEN 2 ELSE 0)
    + (IF m.in_headings THEN 1 ELSE 0) + (IF m.in_first_paragraph THEN 1 ELSE 0)
    + (IF m.optimal_density THEN 1 ELSE 0)

MaxKeywordPoints == 6

\* The dict keyed by the lower-cased keyword.
KeywordDict_lowercased(text, target_keywords) ==
    [kw \in {LowerKw(target_keywords[i]) : i \in 1..Len(target_keywords)} |->
        KeywordMetric(text, kw)]

\* keyword_metrics is a dict keyed by the keyword as given.
KeywordDict(text, target_keywords) ==
    [kw \in {target_keywords[i] : i \in 1..Len(target_keywords)} |->
        KeywordMetric(text, kw)]

\* The points of every entry of the dict.
PointsDict(keyword_metrics) ==
    [kw \in DOMAIN keyword_metrics |->
        The({KeywordPoints(m) : m \in {keyword_metrics[kw]}})]

_analyze_keywords(text, target_keywords) ==
    The({The({[keyword_score |->
                   IF max_possible_score > 0
                   THEN RMul(RDiv(Num(keyword_score), Num(max_possible_score)), Num(100))
                   ELSE Num(0),
               keywords |-> keyword_metrics,
               top_terms |-> TopTerms(FilteredWords(text))] :
              keyword_score \in {SumValues(PointsDict(keyword_metrics))},
              max_possible_score \in {Cardinality(DOMAIN keyword_metrics) * MaxKeywordPoints}}) :
         keyword_metrics \in {KeywordDict(text, target_keywords)}})

Vowels == {"a", "e", "i", "o", "u", "y"}

\* re.sub(suffix + "$", "", word)
StripSuffix(word, suffix) ==
    IF IsSuffix(suffix, word) THEN SubSeq(word, 1, Len(word) - Len(suffix)) ELSE word

\* _count_syllables, on the lower-cased characters of the word
_count_syllables(word) ==
    IF Len(word) <= 3 THEN 1
    ELSE \* a vowel group starts at every vowel not preceded by a vowel
         The({The({IF count = 0 THEN 1 ELSE count :
                   count \in {Cardinality({i \in 1..Len(w) :
                                w[i] \in Vowels /\ (i = 1 \/ w[i - 1] \notin Vowels)})}}) :
              w \in {StripSuffix(StripSuffix(StripSuffix(word, <<"e">>), <<"e", "s">>),
                                  <<"e", "d">>)}})

Clamp(x, lo, hi) == RMin(RMax(x, lo), hi)

\* The Flesch reading ease used without clamping it to 0..100.
NormalizedFre_unclamped(flesch_reading_ease) == flesch_reading_ease

\* min(max(flesch_reading_ease, 0), 100)
NormalizedFre(flesch_reading_ease) == Clamp(flesch_reading_ease, Num(0), Num(100))

\* max(0, min(18 - value, 18)) / 18 * 100
NormalizedGrade(value) ==
    RMul(RDiv(RMax(Num(0), RMin(RSub(Num(18), value), Num(18))), Num(18)), Num(100))

_calculate_readability_score(flesch_reading_ease, flesch_kincaid_grade, gunning_fog) ==
    RDiv(RAdd(RAdd(NormalizedFre(flesch_reading_ease),
                   NormalizedGrade(flesch_kincaid_grade)),
              NormalizedGrade(gunning_fog)),
         Num(3))

\* The counts _analyze_readability takes from the text: words, sentences,
\* syllables, and words of three syllables or more.
ReadabilityCounts(text) ==
    The({The({[word_count |-> Len(words),
               sentence_count |-> SentenceCount(text),
               syllable_count |-> SumSeq(syllables),
               complex_word_count |->
                   Cardinality({i \in 1..Len(words) : syllables[i] >= 3})] :
              syllables \in {[i \in 1..Len(words) |->
                                 _count_syllables(LowerLetters(words[i]))] \o <<>>}}) :
         words \in {AlnumTokens(text)}})

\* The largest r in lo..hi with r * r <= n (lo * lo <= n), by halves.
RECURSIVE IsqrtRange(_, _, _)
IsqrtRange(n, lo, hi) ==
    IF lo >= hi THEN lo
    ELSE The({IF mid * mid <= n THEN IsqrtRange(n, mid, hi)
              ELSE IsqrtRange(n, lo, mid - 1) :
              mid \in {(lo + hi + 1) \div 2}})

\* 1.043 * math.sqrt(complex_word_count * (30 / sentence_count)) + 3.1291.
\* The square root of a ratio of two squares is a ratio and the index a
\* number; any other square root is irrational and the index is kept as
\* the expression coefficient * sqrt(sqrt_of) + plus.
SmogIndex(complex_word_count, sentence_count) ==
    The({The({IF rn * rn = q.n /\ rd * rd = q.d
              THEN RAdd(RMul(Rat(1043, 1000), Rat(rn, rd)), Rat(31291, 10000))
              ELSE [coefficient |-> Rat(1043, 1000), sqrt_of |-> q,
                    plus |-> Rat(31291, 10000)] :
              rn \in {IsqrtRange(q.n, 0, 46340)}, rd \in {IsqrtRange(q.d, 0, 46340)}}) :
         q \in {Rat(complex_word_count * 30, sentence_count)}})

\* The metrics _analyze_readability derives from the counts.
ReadabilityMetrics(c) ==
    LET avg_sentence_length ==
            IF c.sentence_count > 0
            THEN RDiv(Num(c.word_count), Num(c.sentence_count)) ELSE Num(0)
        measured == c.word_count > 0 /\ c.sentence_count > 0
        per_word == RDiv(Num(c.syllable_count), Num(c.word_count))
        flesch_reading_ease ==
            IF measured
            THEN RSub(RSub(Rat(206835, 1000), RMul(Rat(1015, 1000), avg_sentence_length)),
                      RMul(Rat(846, 10), per_word))
            ELSE Num(0)
        flesch_kincaid_grade ==
            IF measured
            THEN RSub(RAdd(RMul(Rat(39, 100), avg_sentence_length),
                           RMul(Rat(118, 10), per_word)),
                      Rat(1559, 100))
            ELSE Num(0)
        gunning_fog ==
            IF measured
            THEN RMul(Rat(4, 10),
                      RAdd(avg_sentence_length,
                           RMul(Num(100),
                                RDiv(Num(c.complex_word_count), Num(c.word_count)))))
            ELSE Num(0)
    IN [flesch_reading_ease |-> flesch_reading_ease,
        flesch_kincaid_grade |-> flesch_kincaid_grade,
        gunning_fog |-> gunning_fog,
        smog_index |->
            IF measured THEN SmogIndex(c.complex_word_count, c.sentence_count)
            ELSE Num(0),
        avg_sentence_length |-> avg_sentence_length,
        complex_word_percentage |->
            IF c.word_count > 0
            THEN RMul(RDiv(Num(c.complex_word_count), Num(c.word_count)), Num(100))
            ELSE Num(0),
        readability_score |->
            _calculate_readability_score(flesch_reading_ease, flesch_kincaid_grade,
                                         gunning_fog)]

_analyze_readability(text) == The({ReadabilityMetrics(c) : c \in {ReadabilityCounts(text)}})

HasToken(text, toks) == \E all \in {Tokens(text)} : \E i \in 1..Len(all) : all[i] \in toks

\* re.search(r"description:|meta description:", content.lower())
_check_meta_description(text) == HasToken(text, {MetaToken})

\* an image tag ![alt] with non-blank alt text
_check_image_alt(text) == HasToken(text, {ImageToken})

\* \[.*?\]\((?!http).*?\): the target of the image tag is such a link too
_check_internal_links(text) == HasToken(text, {InternalLinkToken, ImageToken})

\* \[.*?\]\(https?://.*?\)
_check_external_links(text) == HasToken(text, {ExternalLinkToken})

\* structure_metrics of analyze
StructureMetrics(text) ==
    LET titles == Headings(text, {"#"})
        title == IF titles = <<>> THEN <<>> ELSE titles[1]
        word_count == WordCount(text)
        paragraph_count == ParagraphCount(text)
    IN [has_title |-> title # <<>>,
        title_length |-> LineLength(title),
        h2_count |-> Len(Headings(text, {"##"})),
        h3_count |-> Len(Headings(text, {"###"})),
        paragraph_count |-> paragraph_count,
        avg_paragraph_length |->
            IF paragraph_count > 0 THEN RDiv(Num(word_count), Num(paragraph_count))
            ELSE Num(0),
        has_meta_description |-> _check_meta_description(text),
        has_image_alt |-> _check_image_alt(text),
        has_internal_links |-> _check_internal_links(text),
        has_external_links |-> _check_external_links(text)]

\* The structure score giving a title of 40 to 60 characters its points on
\* top of the points of a non-empty title.
StructureScore_title_points_added(m) ==
    LET raw == (IF m.has_title THEN 15 ELSE 0)
               + (IF 40 <= m.title_length /\ m.title_length <= 60 THEN 10 ELSE 0)
               + (IF m.title_length > 0 THEN 5 ELSE 0)
               + (IF m.h2_count >= 2 THEN 10 ELSE IF m.h2_count > 0 THEN 5 ELSE 0)
               + (IF m.h3_count >= 2 THEN 5 ELSE 0)
               + (IF m.has_meta_description THEN 15 ELSE 0)
               + (IF m.has_image_alt THEN 10 ELSE 0)
               + (IF m.has_internal_links THEN 10 ELSE 0)
               + (IF m.has_external_links THEN 10 ELSE 0)
    IN IF raw < 100 THEN raw ELSE 100

\* The structure part of _calculate_seo_score.
StructureScore(m) ==
    LET raw == (IF m.has_title THEN 15 ELSE 0)
               + (IF 40 <= m.title_length /\ m.title_length <= 60 THEN 10
                  ELSE IF m.title_length > 0 THEN 5 ELSE 0)
               + (IF m.h2_count >= 2 THEN 10 ELSE IF m.h2_count > 0 THEN 5 ELSE 0)
               + (IF m.h3_count >= 2 THEN 5 ELSE 0)
               + (IF m.has_meta_description THEN 15 ELSE 0)
               + (IF m.has_image_alt THEN 10 ELSE 0)
               + (IF m.has_internal_links THEN 10 ELSE 0)
               + (IF m.has_external_links THEN 10 ELSE 0)
    IN IF raw < 100 THEN raw ELSE 100

\* The default weights for every content type.
Weights_default_only(content_type) ==
    [keyword |-> Rat(33, 100), readability |-> Rat(33, 100), structure |-> Rat(34, 100)]

\* The weights of _calculate_seo_score.
Weights(content_type) ==
    CASE content_type = "blog_post" ->
            [keyword |-> Rat(3, 10), readability |-> Rat(3, 10), structure |-> Rat(4, 10)]
      [] content_type = "landing_page" ->
            [keyword |-> Rat(4, 10), readability |-> Rat(2, 10), structure |-> Rat(4, 10)]
      [] content_type = "product_description" ->
            [keyword |-> Rat(5, 10), readability |-> Rat(2, 10), structure |-> Rat(3, 10)]
      [] OTHER ->
            [keyword |-> Rat(33, 100), readability |-> Rat(33, 100),
             structure |-> Rat(34, 100)]

_calculate_seo_score(keyword_metrics, readability_metrics, structure_metrics, content_type) ==
    LET weights == Weights(content_type)
    IN RAdd(RAdd(RMul(keyword_metrics.keyword_score, weights.keyword),
                 RMul(readability_metrics.readability_score, weights.readability)),
            RMul(Num(StructureScore(structure_metrics)), weights.structure))

Rec(id, keyword, value) == [id |-> id, keyword |-> keyword, value |-> value]

When(cond, rec) == IF cond THEN <<rec>> ELSE <<>>

_generate_recommendations(keyword_metrics, readability_metrics, structure_metrics, content_type, target_keywords) ==
    LET primary_keyword == IF target_keywords # <<>> THEN target_keywords[1] ELSE <<>>
        has_primary == primary_keyword # <<>>
                       /\ primary_keyword \in DOMAIN keyword_metrics.keywords
        none == Num(0)
        keyword_recs ==
            IF ~has_primary THEN <<>>
            ELSE The({
                 When(~k.in_title, Rec("keyword_in_title", primary_keyword, none))
                 \o When(~k.in_headings, Rec("keyword_in_heading", primary_keyword, none))
                 \o When(~k.in_first_paragraph,
                         Rec("keyword_in_first_paragraph", primary_keyword, none))
                 \o (IF k.optimal_density THEN <<>>
                     ELSE IF RLt(k.density, LowDensity)
                          THEN <<Rec("increase_density", primary_keyword, k.density)>>
                          ELSE IF RLt(HighDensity, k.density)
                               THEN <<Rec("decrease_density", primary_keyword, k.density)>>
                               ELSE <<>>) :
                 k \in {keyword_metrics.keywords[primary_keyword]}})
        r == readability_metrics
        m == structure_metrics
        \* structure_metrics has no "word_count" key: .get("word_count", 0)
        word_count == IF "word_count" \in DOMAIN m THEN m.word_count ELSE 0
    IN keyword_recs
       \o When(RLt(r.flesch_reading_ease, Num(60)), Rec("improve_readability", <<>>, none))
       \o When(RLt(Num(20), r.avg_sentence_length),
               Rec("reduce_sentence_length", <<>>, r.avg_sentence_length))
       \o When(RLt(Num(20), r.complex_word_percentage), Rec("simpler_words", <<>>, none))
       \o (IF ~m.has_title THEN <<Rec("add_title", <<>>, none)>>
           ELSE IF m.title_length < 40 THEN <<Rec("longer_title", <<>>, none)>>
           ELSE IF m.title_length > 60 THEN <<Rec("shorter_title", <<>>, none)>>
           ELSE <<>>)
       \o When(m.h2_count < 2, Rec("more_h2", <<>>, none))
       \o When(~m.has_meta_description, Rec("add_meta_description", <<>>, none))
       \o When(~m.has_image_alt, Rec("add_image_alt", <<>>, none))
       \o When(~m.has_internal_links, Rec("add_internal_links", <<>>, none))
       \o When(~m.has_external_links, Rec("add_external_links", <<>>, none))
       \o (IF content_type = "blog_post" /\ word_count < 1000
           THEN <<Rec("increase_length_1000", <<>>, Num(word_count))>>
           ELSE IF content_type = "landing_page" /\ word_count < 500
                THEN <<Rec("increase_length_500", <<>>, Num(word_count))>>
                ELSE <<>>)

\* SEOAnalyzer.analyze
analyze(content, target_keywords, content_type) ==
    The({[overall_score |-> _calculate_seo_score(keyword_metrics, readability_metrics,
                                                 structure_metrics, content_type),
          word_count |-> WordCount(content),
          sentence_count |-> SentenceCount(content),
          keyword_metrics |-> keyword_metrics,
          readability_metrics |-> readability_metrics,
          structure_metrics |-> structure_metrics,
          recommendations |-> _generate_recommendations(keyword_metrics, readability_metrics,
                                                        structure_metrics, content_type,
                                                        target_keywords)] :
         keyword_metrics \in {_analyze_keywords(content, target_keywords)},
         readability_metrics \in {_analyze_readability(content)},
         structure_metrics \in {StructureMetrics(content)}})

\* ------------------------------------------------------- video_utils.py
\* A stride computed once with integer division.
FrameIndices_fixed_step(total_frames, max_frames) ==
    IF total_frames <= max_frames THEN [i \in 1..total_frames |-> i - 1]
    ELSE [i \in 1..max_frames |-> (i - 1) * (total_frames \div max_frames)]

\* frame_indices of extract_frames / _extract_frames:
\* list(range(total_frames)), or int(i * total_frames / max_frames) for i in
\* range(max_frames); the sequence position i stands for the loop index i - 1.
FrameIndices(total_frames, max_frames) ==
    IF total_frames <= max_frames THEN [i \in 1..total_frames |-> i - 1]
    ELSE [i \in 1..max_frames |-> ((i - 1) * total_frames) \div max_frames]

\* ----------------------------------------------------- analyzer inputs
DocEmpty == EmptyText

\* Only stop words: three words, none of them counted for the densities.
DocStops == << <<"the", "more", "the">> >>

DocArticle ==
    << <<"#", "seo", "tips">>, <<>>, <<"the", "seo", "guide", ".">>, <<>>, <<>>,
       <<"content">> >>

\* Many-syllable words in one sentence: a negative Flesch reading ease.
DocComplex == << <<"optimization", "description", "optimization", ".">> >>

\* Title of 47 characters, two h2, two h3, meta description, image, links.
DocFull ==
    << <<"#", "seo", "optimization", "content", "description", "guide", "tips">>,
       <<>>,
       <<MetaToken, "seo", "tips", ".">>,
       <<>>,
       <<"##", "SEO", "guide">>,
       <<ImageToken, InternalLinkToken, ExternalLinkToken>>,
       <<"###", "tips">>,
       <<"###", "content">>,
       <<"##", "content", "tips">>,
       <<"the", "guide", ".">> >>

\* 200 counted words: "seo" once (density 0.5) and "tips" five times (2.5).
DocBoundaries == << <<"seo">> \o Rep("tips", 5) \o Rep("content", 194) \o <<".">> >>

\* 201 counted words: "seo" just below 0.5, "tips" inside the range.
DocBelow == << <<"seo">> \o Rep("tips", 5) \o Rep("content", 195) \o <<".">> >>

\* 199 counted words: "seo" inside the range, "tips" just above 2.5.
DocAbove == << <<"seo">> \o Rep("tips", 5) \o Rep("content", 193) \o <<".">> >>

\* A blank first line before the level-1 heading, as in the sample text of
\* test_seo_analysis.py.
DocLateTitle ==
    << <<>>, <<"#", "seo", "tips">>, <<>>, <<"##", "guide">>, <<"content", ".">> >>

\* 1000 words.
DocLong == << Rep("content", 999) \o <<"seo", ".">> >>

\* "#\nseo tips\n\n##.\nguide\n\n\ncontent.": a marker alone on its line, a
\* marker followed by a ".", an odd number of line breaks.
DocBareMarker ==
    << <<"#">>, <<"seo", "tips">>, <<>>, <<"##", ".">>, <<"guide">>, <<>>, <<>>,
       <<"content", ".">> >>

Docs == {DocEmpty, DocStops, DocArticle, DocComplex, DocFull, DocBoundaries, DocBelow,
         DocAbove, DocLateTitle, DocLong, DocBareMarker}

\* target_keywords lists: empty, repeated, differing in case only,
\* multi-word, with a stop word.
AnalyzerKeywordLists ==
    {<<>>,
     << <<"seo">> >>,
     << <<"seo">>, <<"seo">> >>,
     << <<"seo">>, <<"seo">>, <<"guide">> >>,
     << <<"SEO">>, <<"seo">> >>,
     << <<"seo", "tips">> >>,
     << <<"the", "seo">>, <<"guide">> >>,
     << <<"seo">>, <<"tips">> >>,
     << <<"tips">>, <<"seo">> >>}

\* Members of the enum ContentType; ContentRequest keeps their values
\* (use_enum_values), and the values are what reaches the analyzer.
ContentTypeMembers == {"BLOG_POST", "EMAIL", "LANDING_PAGE", "PRODUCT_DESCRIPTION", "CUSTOM"}

ContentTypeValue(member) ==
    CASE member = "BLOG_POST" -> "blog_post"
      [] member = "EMAIL" -> "email"
      [] member = "LANDING_PAGE" -> "landing_page"
      [] member = "PRODUCT_DESCRIPTION" -> "product_description"
      [] member = "CUSTOM" -> "custom"

AnalyzerContentTypes == {ContentTypeValue(member) : member \in ContentTypeMembers}

\* ----------------------------------------------------------------- state
\* The analyzer and the frame extraction while they do not run.
NoAnalysis ==
    [pc |-> "idle", content |-> EmptyText, target_keywords |-> <<>>,
     content_type |-> "custom", result |-> <<>>, raised |-> FALSE]

NoExtraction ==
    [pc |-> "idle", total_frames |-> 0, max_frames |-> 1, opened |-> FALSE,
     frame_indices |-> <<>>, next |-> 1, frames |-> <<>>, returned |-> <<>>]

Init ==
    /\ env \in [api_key : BOOLEAN, prompt_raises : BOOLEAN, stopwords : BOOLEAN,
               punkt : BOOLEAN]
    /\ request = NoRequest
    /\ pc = "construct"
    /\ state = NoState
    /\ trace = <<>>
    /\ modelCalls = <<>>
    /\ searchCalls = <<>>
    /\ response = <<>>
    /\ outcome = "pending"
    /\ scorerCalls = <<>>
    /\ az = NoAnalysis
    /\ fr = NoExtraction

\* The caller constructs a ContentRequest; pydantic raises on invalid input.
ConstructRequest ==
    /\ pc = "construct"
    /\ \E topic \in Topics, wc \in WordCounts, ct \in ContentTypes, ir \in BOOLEAN,
          kws \in KeywordLists, tone \in Tones, audience \in Audiences :
          IF ContentRequestValid(topic, wc)
          THEN /\ request' = [content_type |-> ct, topic |-> topic, tone |-> tone,
                              audience |-> audience, word_count |-> wc,
                              include_research |-> ir, keywords |-> kws]
               /\ pc' = "start"
               /\ outcome' = outcome
          ELSE /\ request' = request
               /\ pc' = "rejected"
               /\ outcome' = "rejected"
    /\ UNCHANGED <<env, state, trace, modelCalls, searchCalls, response, scorerCalls, az, fr>>

\* CopywritingGraphAgent.generate_content, up to workflow.invoke: the entry
\* point of the graph is "research".
Start ==
    /\ pc = "start"
    /\ state' = initialize_state(request)
    /\ pc' = "research"
    /\ UNCHANGED <<env, request, trace, modelCalls, searchCalls, response, outcome,
                   scorerCalls, az, fr>>

\* One node execution: run the node, merge its update, follow the edge.
RunNode(node, r, out) ==
    /\ pc = node
    /\ Len(trace) < MaxTrace
    /\ state' = Merge(state, r.update)
    /\ trace' = Append(trace, [stage |-> node, status |-> r.update.status])
    /\ modelCalls' = IF r.llm = <<>> THEN modelCalls
                     ELSE Append(modelCalls, [stage |-> node, input |-> r.llm[1], out |-> out])
    /\ searchCalls' = IF r.search THEN Append(searchCalls, out) ELSE searchCalls
    /\ scorerCalls' = scorerCalls \o r.scorer
    /\ pc' = NextNode(node, state')
    /\ UNCHANGED <<env, request, response, outcome, az, fr>>

Research ==
    \E out \in SearchOutcomes : RunNode("research", perform_research(state, out), out)

GeneratePrompt ==
    RunNode("generate_prompt", generate_prompt(state), None)

GenerateContent ==
    \E out \in LlmOutcomes : RunNode("generate_content", generate_content(state, out), out)

EnhanceContent ==
    \E out \in LlmOutcomes :
        RunNode("enhance_content", apply_direct_response_principles(state, out), out)

AnalyzeSeo ==
    \E score \in Scores : RunNode("analyze_seo", analyze_seo(state, score), None)

OptimizeSeo ==
    \E out \in LlmOutcomes : RunNode("optimize_seo", optimize_seo(state, out), out)

\* The stop-word corpus is a file that SEOAnalyzer() opens at each
\* construction: between the construction in analyze_seo and the one in
\* optimize_seo it may have been installed or removed.
StopwordsChange ==
    /\ pc = "optimize_seo"
    /\ env' = [env EXCEPT !.stopwords = ~env.stopwords]
    /\ UNCHANGED <<request, pc, state, trace, modelCalls, searchCalls, response, outcome,
                   scorerCalls, az, fr>>

\* CopywritingGraphAgent.generate_content after workflow.invoke returned: the
\* seo score is written into the metadata dict of the final state (in place)
\* and the ContentResponse is built and returned.
Respond ==
    /\ pc = "END"
    /\ response' = <<ContentResponse(state)>>
    /\ state' = [state EXCEPT !.metadata = FinalMetadata(state)]
    /\ outcome' = "returned"
    /\ pc' = "done"
    /\ UNCHANGED <<env, request, trace, modelCalls, searchCalls, scorerCalls, az, fr>>

Next ==
    \/ ConstructRequest
    \/ Start
    \/ Research
    \/ GeneratePrompt
    \/ GenerateContent
    \/ EnhanceContent
    \/ AnalyzeSeo
    \/ StopwordsChange
    \/ OptimizeSeo
    \/ Respond

Spec == Init /\ [][Next]_vars

\* -------------------------------------------------- the analyzer alone
\* The variables of the workflow while it does not run.
WorkflowOff ==
    /\ env = [api_key |-> TRUE, prompt_raises |-> FALSE, stopwords |-> TRUE, punkt |-> TRUE]
    /\ request = NoRequest
    /\ pc = "off"
    /\ state = NoState
    /\ trace = <<>>
    /\ modelCalls = <<>>
    /\ searchCalls = <<>>
    /\ response = <<>>
    /\ outcome = "pending"
    /\ scorerCalls = <<>>

workflowVars == <<env, request, pc, state, trace, modelCalls, searchCalls, response,
                  outcome, scorerCalls>>

\* A float operation of the analysis divided by zero.
DivisionError(r) ==
    \/ r.overall_score.d = 0
    \/ r.keyword_metrics.keyword_score.d = 0
    \/ \E kw \in DOMAIN r.keyword_metrics.keywords : r.keyword_metrics.keywords[kw].density.d = 0
    \/ r.readability_metrics.readability_score.d = 0
    \/ r.readability_metrics.avg_sentence_length.d = 0
    \/ r.readability_metrics.complex_word_percentage.d = 0
    \/ r.structure_metrics.avg_paragraph_length.d = 0

InitAnalyzer ==
    /\ WorkflowOff
    /\ fr = NoExtraction
    /\ \E content \in Docs, kws \in AnalyzerKeywordLists, ct \in AnalyzerContentTypes :
          az = [pc |-> "called", content |-> content, target_keywords |-> kws,
                content_type |-> ct, result |-> <<>>, raised |-> FALSE]

\* SEOAnalyzer().analyze(content, target_keywords, content_type) runs and
\* returns its result dict, or raises.
Analyze ==
    /\ az.pc = "called"
    /\ \E r \in {analyze(az.content, az.target_keywords, az.content_type)} :
          az' = IF DivisionError(r)
                THEN [az EXCEPT !.pc = "done", !.raised = TRUE]
                ELSE [az EXCEPT !.pc = "done", !.result = <<r>>]
    /\ UNCHANGED <<workflowVars, fr>>

NextAnalyzer == Analyze

SpecAnalyzer == InitAnalyzer /\ [][NextAnalyzer]_vars

\* ------------------------------------------------ frame extraction alone
InitFrames ==
    /\ WorkflowOff
    /\ az = NoAnalysis
    /\ \E t \in 0..MaxTotalFrames, n \in 1..MaxMaxFrames :
          fr = [NoExtraction EXCEPT !.pc = "open", !.total_frames = t, !.max_frames = n]

\* cv2.VideoCapture(video_path); a video that did not open raises, and the
\* except branch returns [].
OpenVideo ==
    /\ fr.pc = "open"
    /\ \E opened \in BOOLEAN :
          fr' = IF opened THEN [fr EXCEPT !.pc = "select", !.opened = TRUE]
                ELSE [fr EXCEPT !.pc = "done", !.returned = <<>>]
    /\ UNCHANGED <<workflowVars, az>>

\* "Calculate frame indices to extract"
SelectIndices ==
    /\ fr.pc = "select"
    /\ fr' = [fr EXCEPT !.pc = "read",
                        !.frame_indices = FrameIndices(fr.total_frames, fr.max_frames)]
    /\ UNCHANGED <<workflowVars, az>>

\* One pass of the loop: seek to the index, read, keep the frame `if ret`.
ReadFrame ==
    /\ fr.pc = "read"
    /\ fr.next <= Len(fr.frame_indices)
    /\ \E ret \in BOOLEAN :
          fr' = [fr EXCEPT !.next = @ + 1,
                           !.frames = IF ret THEN Append(@, fr.frame_indices[fr.next])
                                      ELSE @]
    /\ UNCHANGED <<workflowVars, az>>

\* video.release(); return frames
ReturnFrames ==
    /\ fr.pc = "read"
    /\ fr.next > Len(fr.frame_indices)
    /\ fr' = [fr EXCEPT !.pc = "done", !.returned = fr.frames]
    /\ UNCHANGED <<workflowVars, az>>

NextFrames ==
    \/ OpenVideo
    \/ SelectIndices
    \/ ReadFrame
    \/ ReturnFrames

SpecFrames == InitFrames /\ [][NextFrames]_vars

\* ---------------------------------------------------------------- claims
StageOrder == <<"research", "generate_prompt", "generate_content",
                "enhance_content", "analyze_seo", "optimize_seo">>

Returned == outcome = "returned"

\* The stage at trace position i ended with the given status.
StageEndedWith(st) == \E i \in 1..Len(trace) : trace[i].status = st

\* The model was invoked by the given stage.
InvokedBy(stage) == \E i \in 1..Len(modelCalls) : modelCalls[i].stage = stage

\* C1: the returned content is the first non-empty value among
\* seo_optimized_content, enhanced_content and content of the final state,
\* and "" when none of them is non-empty.
C1_FinalContentPriority ==
    Returned =>
        response[1].content =
            IF Truthy(state.seo_optimized_content) THEN state.seo_optimized_content
            ELSE IF Truthy(state.enhanced_content) THEN state.enhanced_content
            ELSE IF Truthy(state.content) THEN state.content
            ELSE ""

\* A run returned with an empty seo_optimized_content and fell back to a
\* non-empty enhanced_content that differs from content.
C1_Witness ==
    /\ Returned
    /\ state.seo_optimized_content = ""
    /\ Truthy(state.enhanced_content)
    /\ Truthy(state.content)
    /\ state.enhanced_content # state.content
    /\ response[1].content = state.enhanced_content

\* C2: once generate_content has failed on a raising model call the run
\* stops there: no later stage executes or invokes the model, and the caller
\* gets no ContentResponse.
C2_GenerateFailureStopsRun ==
    \A i \in 1..Len(trace) :
        (/\ trace[i].status = "content_generation_failed"
         /\ \E j \in 1..Len(modelCalls) :
                modelCalls[j].stage = "generate_content" /\ modelCalls[j].out = Raise) =>
            /\ i = Len(trace)
            /\ ~InvokedBy("enhance_content")
            /\ ~InvokedBy("optimize_seo")
            /\ ~Returned

\* C3: once generate_prompt has failed the run is aborted: no later stage
\* executes and the model is never invoked.
C3_PromptFailureAbortsRun ==
    \A i \in 1..Len(trace) :
        trace[i].status = "prompt_generation_failed" =>
            /\ i = Len(trace)
            /\ modelCalls = <<>>

\* The first model call (generate_content) succeeded and the second
\* (enhance_content) raised.
FirstOkSecondRaises ==
    /\ Len(modelCalls) >= 2
    /\ modelCalls[1].stage = "generate_content"
    /\ modelCalls[1].out # Raise
    /\ modelCalls[2].stage = "enhance_content"
    /\ modelCalls[2].out = Raise

\* The third model call (optimize_seo) returned a non-empty rewrite.
ThirdCallRewrote ==
    /\ Len(modelCalls) >= 3
    /\ modelCalls[3].out # Raise
    /\ modelCalls[3].out # ""

\* C4 (as claimed): when the first call succeeds and the second raises, the
\* returned content is the first call's output, never empty, and the run's
\* status is enhancement_failed.
C4_Original ==
    (Returned /\ FirstOkSecondRaises) =>
        /\ response[1].content = modelCalls[1].out
        /\ response[1].content # ""
        /\ state.status = "enhancement_failed"

\* C4 (amended): when the first call succeeds and the second raises, the
\* enhance_content stage ends with status enhancement_failed and
\* enhanced_content equal to the first call's output; the returned content is
\* the first call's output unless the third call returned a non-empty
\* rewrite, which is then returned; the final status is optimize_seo's.
C4_EnhancementFallback ==
    FirstOkSecondRaises =>
        /\ trace[4].stage = "enhance_content"
        /\ trace[4].status = "enhancement_failed"
        /\ state.enhanced_content = modelCalls[1].out
        /\ Returned =>
              /\ response[1].content =
                    IF ThirdCallRewrote THEN modelCalls[3].out ELSE modelCalls[1].out
              /\ state.status \in {"seo_optimization_skipped",
                                   "seo_optimization_completed",
                                   "seo_optimization_failed"}

\* A run returned the first call's non-empty output after the enhancement
\* call raised and the optimization call raised too.
C4_Witness ==
    /\ Returned
    /\ FirstOkSecondRaises
    /\ Len(modelCalls) = 3
    /\ modelCalls[3].out = Raise
    /\ response[1].content = "text A"

\* C5: when optimize_seo has run on an analysis with overall_score >= 85 it
\* made no model call, seo_optimized_content is the text the stage received
\* and metadata carries the score as seo_score.
C5_HighScoreSkipsOptimization ==
    (pc = "END" /\ state.seo_analysis # <<>>
        /\ state.seo_analysis[1].overall_score >= SkipThreshold) =>
        /\ ~InvokedBy("optimize_seo")
        /\ state.status = "seo_optimization_skipped"
        /\ state.seo_optimized_content = Or(state.enhanced_content, state.content)
        /\ Truthy(state.seo_optimized_content)
        /\ "seo_score" \in DOMAIN state.metadata
        /\ state.metadata.seo_score = state.seo_analysis[1].overall_score

\* optimize_seo ran with a score of exactly 85, on content (enhancement
\* returned nothing), with a usable model.
C5_Witness ==
    /\ pc = "END"
    /\ env.api_key
    /\ state.seo_analysis # <<>>
    /\ state.seo_analysis[1].overall_score = SkipThreshold
    /\ state.enhanced_content = ""
    /\ state.seo_optimized_content = state.content

\* C6: with include_research false the research stage makes no search call,
\* yields research_results None and status research_skipped, and the run
\* proceeds to generate_prompt.
C6_ResearchSkipped ==
    (~request.include_research /\ Len(trace) >= 1) =>
        /\ searchCalls = <<>>
        /\ trace[1].stage = "research"
        /\ trace[1].status = "research_skipped"
        /\ state.research_results = None
        /\ Len(trace) = 1 => pc = "generate_prompt"
        /\ Len(trace) >= 2 => trace[2].stage = "generate_prompt"

\* The research stage was skipped and generate_prompt has run after it.
C6_Witness ==
    /\ ~request.include_research
    /\ Len(trace) = 2
    /\ trace[1].status = "research_skipped"
    /\ trace[2].status = "prompt_generated"

\* C7: when the search collaborator raises, the research stage yields
\* research_results None and status research_failed, and the run continues
\* through generate_prompt, which assembles a prompt without research, and
\* generate_content.
C7_ResearchFailureNonFatal ==
    (searchCalls # <<>> /\ searchCalls[1] = Raise) =>
        /\ request.include_research
        /\ trace[1].status = "research_failed"
        /\ state.research_results = None
        /\ Len(trace) = 1 => pc = "generate_prompt"
        /\ Len(trace) >= 2 =>
              /\ trace[2].stage = "generate_prompt"
              /\ ~env.prompt_raises =>
                    /\ trace[2].status = "prompt_generated"
                    /\ state.prompt = "prompt"
        /\ Len(trace) = 2 => pc = "generate_content"
        /\ Len(trace) >= 3 => trace[3].stage = "generate_content"

\* The search raised, the prompt was assembled and the model generated
\* content from it.
C7_Witness ==
    /\ searchCalls = <<Raise>>
    /\ Len(trace) = 3
    /\ trace[2].status = "prompt_generated"
    /\ trace[3].status = "content_generated"
    /\ state.error = "search error"

\* C8: the stages run in the fixed order research, generate_prompt,
\* generate_content, enhance_content, analyze_seo, optimize_seo, each once;
\* the refine edge is never taken and the run ends after optimize_seo.
C8_FixedStageOrder ==
    /\ Len(trace) <= Len(StageOrder)
    /\ \A i \in 1..Len(trace) : trace[i].stage = StageOrder[i]
    /\ pc \in {"END", "done"} <=> Len(trace) = Len(StageOrder)
    /\ (pc \notin {"construct", "rejected", "start", "END", "done"}) =>
          pc = StageOrder[Len(trace) + 1]

\* A run completed all six stages although the optimization stage failed.
C8_Witness ==
    /\ pc = "done"
    /\ Len(trace) = 6
    /\ trace[6].status = "seo_optimization_failed"

NonFatalFailures == {"research_failed", "enhancement_failed",
                     "seo_analysis_failed", "seo_optimization_failed"}

\* C9: after a run in which a non-fatal stage failed, the metadata of the
\* returned ContentResponse carries the status and error of that failure.
C9_FailureRecordedInResponse ==
    (Returned /\ \E st \in NonFatalFailures : StageEndedWith(st)) =>
        /\ "status" \in DOMAIN response[1].metadata
        /\ "error" \in DOMAIN response[1].metadata

\* C10: no workflow run starts from a request with an empty topic or a
\* negative word_count; such a request is rejected at construction.
C10_InvalidRequestRejected ==
    (pc \notin {"construct", "rejected"}) =>
        /\ request.topic # ""
        /\ request.word_count = <<>> \/ request.word_count[1] >= 0

\* ------------------------------------------------------ analyzer claims
\* analyze has returned its result dict.
Analyzed == az.pc = "done" /\ az.result # <<>>

\* 0 <= x <= 100 for a number x
InScoreRange(x) == x.d > 0 /\ 0 <= x.n /\ x.n <= 100 * x.d

\* C11: for every text, keyword list and content type analyze returns, and
\* the readability_score, the keyword_score and the overall_score of the
\* result all lie between 0 and 100.
C11_ScoresInRange ==
    az.pc = "done" =>
        /\ Analyzed
        /\ InScoreRange(az.result[1].readability_metrics.readability_score)
        /\ InScoreRange(az.result[1].keyword_metrics.keyword_score)
        /\ InScoreRange(az.result[1].overall_score)

\* A text whose Flesch reading ease is negative was scored, with a keyword
\* that earned points.
C11_Witness ==
    /\ Analyzed
    /\ az.result[1].readability_metrics.flesch_reading_ease.n < 0
    /\ az.result[1].keyword_metrics.keyword_score.n > 0
    /\ az.result[1].overall_score.n > 0

\* The keywords of the input list, as a set.
InputKeywords == {az.target_keywords[i] : i \in 1..Len(az.target_keywords)}

\* C12: the keyword-metric mapping of the result has exactly one entry per
\* distinct keyword of the input list (repeated keywords share one entry, the
\* empty list gives the empty mapping), and every entry has count >= 0.
C12_OneEntryPerKeyword ==
    Analyzed =>
        LET keywords == az.result[1].keyword_metrics.keywords
        IN /\ DOMAIN keywords = InputKeywords
           /\ (az.target_keywords = <<>> => DOMAIN keywords = {})
           /\ \A kw \in DOMAIN keywords : keywords[kw].count >= 0

\* A list that repeats a keyword gave one entry, and a list with two
\* spellings of a keyword gave two.
C12_Witness ==
    /\ Analyzed
    /\ \/ /\ az.target_keywords = << <<"seo">>, <<"seo">> >>
          /\ Cardinality(DOMAIN az.result[1].keyword_metrics.keywords) = 1
          /\ az.result[1].keyword_metrics.keywords[<<"seo">>].count > 0
       \/ /\ az.target_keywords = << <<"SEO">>, <<"seo">> >>
          /\ Cardinality(DOMAIN az.result[1].keyword_metrics.keywords) = 2

\* C13: every density is non-negative; for a text without words word_count
\* is 0, every density is 0, and analyze returns a result with its
\* overall_score instead of raising a division error.
C13_DensityWithoutWords ==
    az.pc = "done" =>
        /\ ~az.raised
        /\ Analyzed
        /\ LET keywords == az.result[1].keyword_metrics.keywords
           IN /\ \A kw \in DOMAIN keywords :
                    keywords[kw].density.d > 0 /\ keywords[kw].density.n >= 0
              /\ az.content = EmptyText =>
                    /\ az.result[1].word_count = 0
                    /\ \A kw \in DOMAIN keywords : keywords[kw].density.n = 0
                    /\ az.result[1].overall_score.d > 0

\* The empty text was analyzed with a keyword.
C13_Witness ==
    /\ Analyzed
    /\ az.content = EmptyText
    /\ az.target_keywords # <<>>
    /\ \A kw \in InputKeywords : az.result[1].keyword_metrics.keywords[kw].density.n = 0

\* ---------------------------------------------------------- frame claims
\* C15: for a video of T frames and max_frames N >= 1 the selected indices
\* are 0..T-1 when T <= N and floor(i*T/N) for i = 0..N-1 otherwise; they
\* are strictly ascending (so pairwise distinct), lie in [0, T) and number
\* min(T, N).
C15_FrameIndices ==
    fr.pc \in {"read", "done"} /\ fr.opened =>
        LET T == fr.total_frames
            N == fr.max_frames
            idx == fr.frame_indices
        IN /\ Len(idx) = IF T <= N THEN T ELSE N
           /\ \A i \in 1..Len(idx) :
                 /\ 0 <= idx[i] /\ idx[i] < T
                 /\ IF T <= N THEN idx[i] = i - 1
                    ELSE /\ N * idx[i] <= (i - 1) * T
                         /\ (i - 1) * T < N * (idx[i] + 1)
           /\ \A i \in 1..(Len(idx) - 1) : idx[i] < idx[i + 1]

\* More frames than asked for, not a multiple: indices with uneven gaps
\* were selected and read.
C15_Witness ==
    /\ fr.pc = "done"
    /\ fr.opened
    /\ fr.total_frames = 5
    /\ fr.max_frames = 3
    /\ fr.frame_indices = <<0, 1, 3>>
    /\ fr.returned = <<0, 1, 3>>

\* ---------------------------------------------- seo stages of the workflow
\* The text the seo stages work on: enhanced_content when it is non-empty,
\* content otherwise.
PreOptimizationText ==
    IF Truthy(state.enhanced_content) THEN state.enhanced_content ELSE state.content

\* The model calls made by optimize_seo.
OptimizeCalls == SelectSeq(modelCalls, LAMBDA c : c.stage = "optimize_seo")

\* optimize_seo has run on non-empty content with an seo_analysis whose
\* overall_score is below 85.
OptimizationAttempted ==
    /\ pc = "END"
    /\ Truthy(PreOptimizationText)
    /\ state.seo_analysis # <<>>
    /\ state.seo_analysis[1].overall_score < 85

\* C16 (as claimed): when optimize_seo has run on non-empty content with an
\* seo_analysis whose overall_score is below 85, it has invoked the model
\* exactly once with the improvement prompt, seo_optimized_content is the
\* text the model returned, the status is seo_optimization_completed and
\* metadata holds the seo_score.
C16_Original ==
    OptimizationAttempted =>
        /\ Len(OptimizeCalls) = 1
        /\ OptimizeCalls[1].input = get_seo_improvement_prompt(state.seo_analysis[1],
                                                                PreOptimizationText)
        /\ state.seo_optimized_content = OptimizeCalls[1].out
        /\ state.status = "seo_optimization_completed"
        /\ "seo_score" \in DOMAIN state.metadata
        /\ state.metadata["seo_score"] = state.seo_analysis[1].overall_score

\* C16 (amended): when optimize_seo has run on non-empty content with an
\* seo_analysis whose overall_score is below 85, it has invoked the model
\* at most once: not at all exactly when the stop-word corpus could not be
\* loaded for its analyzer, and otherwise once, with the improvement prompt
\* built from that analysis and that content.  When the call was made and
\* returned, seo_optimized_content is the returned text, the status is
\* seo_optimization_completed and metadata holds the seo_score; when no call
\* was made or the call raised, seo_optimized_content is the
\* pre-optimization text, the status is seo_optimization_failed and no
\* seo_score is written.
C16_OptimizationRewrites ==
    OptimizationAttempted =>
        /\ Len(OptimizeCalls) <= 1
        /\ Len(OptimizeCalls) = 0 <=> ~env.stopwords
        /\ Len(OptimizeCalls) = 1 =>
              /\ OptimizeCalls[1].input.task = "SEO Improvement Task"
              /\ OptimizeCalls[1].input.content = PreOptimizationText
              /\ OptimizeCalls[1].input.overall_score = state.seo_analysis[1].overall_score
        /\ IF Len(OptimizeCalls) = 1 /\ OptimizeCalls[1].out # Raise
           THEN /\ state.seo_optimized_content = OptimizeCalls[1].out
                /\ state.status = "seo_optimization_completed"
                /\ "seo_score" \in DOMAIN state.metadata
                /\ state.metadata["seo_score"] = state.seo_analysis[1].overall_score
           ELSE /\ state.seo_optimized_content = PreOptimizationText
                /\ state.status = "seo_optimization_failed"
                /\ "seo_score" \notin DOMAIN state.metadata

\* optimize_seo rewrote an enhanced text scored just below the threshold.
C16_Witness ==
    /\ pc = "END"
    /\ state.enhanced_content = "text A"
    /\ state.seo_analysis = <<[overall_score |-> 84]>>
    /\ Len(OptimizeCalls) = 1
    /\ state.seo_optimized_content = "text B"
    /\ state.status = "seo_optimization_completed"

\* The model call of optimize_seo raised.
OptimizeCallRaised ==
    \E i \in 1..Len(modelCalls) :
        modelCalls[i].stage = "optimize_seo" /\ modelCalls[i].out = Raise

\* C17: when the model call inside optimize_seo raised,
\* seo_optimized_content is the pre-optimization text and the status is
\* seo_optimization_failed; the run goes on to its end and the
\* ContentResponse it returns carries that text.
C17_OptimizationFallback ==
    (OptimizeCallRaised /\ pc \in {"END", "done"}) =>
        /\ state.seo_optimized_content = PreOptimizationText
        /\ state.status = "seo_optimization_failed"
        /\ pc = "done" =>
              /\ Returned
              /\ response # <<>>
              /\ response[1].content = PreOptimizationText

\* A run whose optimization call raised returned the generated text, the
\* enhancement having produced nothing.
C17_Witness ==
    /\ OptimizeCallRaised
    /\ Returned
    /\ state.enhanced_content = ""
    /\ response[1].content = "text A"

\* analyze_seo has run.
SeoAnalysisRan == \E i \in 1..Len(trace) : trace[i].stage = "analyze_seo"

\* C18: analyze_seo hands the scorer enhanced_content when that is
\* non-empty and content otherwise, together with the keywords and the
\* content_type of the request: once when the analysis completes, at most
\* once when it fails;
\* when both texts are None or empty the scorer is not invoked, seo_analysis
\* is None and the stage ends with seo_analysis_skipped.
C18_AnalysisInput ==
    SeoAnalysisRan =>
        IF Truthy(PreOptimizationText)
        THEN /\ ~StageEndedWith("seo_analysis_skipped")
             /\ Len(scorerCalls) <= 1
             /\ StageEndedWith("seo_analysis_completed") => Len(scorerCalls) = 1
             /\ \A i \in 1..Len(scorerCalls) :
                   /\ scorerCalls[i].content = PreOptimizationText
                   /\ scorerCalls[i].target_keywords = request.keywords
                   /\ scorerCalls[i].content_type = request.content_type
        ELSE /\ scorerCalls = <<>>
             /\ state.seo_analysis = <<>>
             /\ StageEndedWith("seo_analysis_skipped")

\* The enhanced text, different from the generated one, was scored with the
\* keywords of the request.
C18_Witness ==
    /\ pc = "optimize_seo"
    /\ state.content = "text A"
    /\ state.enhanced_content = "text B"
    /\ scorerCalls = <<[content |-> "text B", target_keywords |-> << <<"seo">> >>,
                        content_type |-> "blog_post"]>>

\* C19: when analyze_seo fails internally, seo_analysis is None and the
\* stage ends with seo_analysis_failed; optimize_seo then makes no model
\* call and sets seo_optimized_content to the pre-optimization text, and
\* the content returned is that text.
C19_AnalysisFailureNonFatal ==
    StageEndedWith("seo_analysis_failed") =>
        /\ state.seo_analysis = <<>>
        /\ ~InvokedBy("optimize_seo")
        /\ pc \in {"END", "done"} => state.seo_optimized_content = PreOptimizationText
        /\ pc = "done" =>
              /\ Returned
              /\ response # <<>>
              /\ response[1].content = PreOptimizationText

\* A run whose analysis failed returned the enhanced text.
C19_Witness ==
    /\ StageEndedWith("seo_analysis_failed")
    /\ Returned
    /\ state.content = "text A"
    /\ state.enhanced_content = "text B"
    /\ response[1].content = "text B"

\* -------------------------------------------------------- density range
\* The density recommendations made for a keyword.
DensityRecommendations(kw) ==
    {i \in 1..Len(az.result[1].recommendations) :
        /\ az.result[1].recommendations[i].id \in {"increase_density", "decrease_density"}
        /\ az.result[1].recommendations[i].keyword = kw}

\* C20: optimal_density of a keyword is true exactly when its density d
\* satisfies 0.5 <= d <= 2.5, both ends included, and for a keyword with
\* optimal density neither the increase-density nor the decrease-density
\* recommendation is made.
C20_OptimalDensityInclusive ==
    Analyzed =>
        \A kw \in DOMAIN az.result[1].keyword_metrics.keywords :
            LET m == az.result[1].keyword_metrics.keywords[kw]
            IN /\ m.optimal_density <=>
                     (m.density.d <= 2 * m.density.n /\ 2 * m.density.n <= 5 * m.density.d)
               /\ m.optimal_density => DensityRecommendations(kw) = {}

\* A text with one keyword at exactly 0.5 and another at exactly 2.5 was
\* analyzed, both were found optimal and no density recommendation was made.
C20_Witness ==
    /\ Analyzed
    /\ az.target_keywords = << <<"seo">>, <<"tips">> >>
    /\ az.result[1].keyword_metrics.keywords[<<"seo">>].density = [n |-> 1, d |-> 2]
    /\ az.result[1].keyword_metrics.keywords[<<"tips">>].density = [n |-> 5, d |-> 2]
    /\ az.result[1].keyword_metrics.keywords[<<"seo">>].optimal_density
    /\ az.result[1].keyword_metrics.keywords[<<"tips">>].optimal_density
    /\ DensityRecommendations(<<"seo">>) = {}

\* ------------------------------------------------- empty and wordless text
\* The readability analysis found no word or no sentence in the text.
NothingToRead == AlnumTokens(az.content) = <<>> \/ SentenceCount(az.content) = 0

\* C21: for the empty text, and for every text without words or without
\* sentences, the readability analysis returns and every readability metric
\* is 0, the normalized readability_score included.
C21_EmptyTextReadabilityZero ==
    (az.pc = "done" /\ NothingToRead) =>
        /\ Analyzed
        /\ \A f \in DOMAIN az.result[1].readability_metrics :
              az.result[1].readability_metrics[f] = Num(0)

\* C22: for the empty text has_title is false, title_length, h2_count,
\* h3_count, paragraph_count and avg_paragraph_length are 0 and the four
\* marker checks are false; for a non-empty text paragraph_count is at
\* least 1.
C22_EmptyTextStructureZero ==
    Analyzed =>
        LET m == az.result[1].structure_metrics
        IN IF az.content = EmptyText
           THEN /\ ~m.has_title
                /\ m.title_length = 0
                /\ m.h2_count = 0
                /\ m.h3_count = 0
                /\ m.paragraph_count = 0
                /\ m.avg_paragraph_length = Num(0)
                /\ ~m.has_meta_description
                /\ ~m.has_image_alt
                /\ ~m.has_internal_links
                /\ ~m.has_external_links
           ELSE m.paragraph_count >= 1

\* ---------------------------------------------------------- overall score
\* The weights (keyword, readability, structure) in hundredths by content
\* type.
StatedWeights(content_type) ==
    CASE content_type = "blog_post" -> <<30, 30, 40>>
      [] content_type = "landing_page" -> <<40, 20, 40>>
      [] content_type = "product_description" -> <<50, 20, 30>>
      [] OTHER -> <<33, 33, 34>>

\* keyword_score * w[1] + readability_score * w[2] + structure_score * w[3],
\* the weights given in hundredths.
WeightedSum(r, w, structure_score) ==
    RAdd(RAdd(RMul(r.keyword_metrics.keyword_score, Rat(w[1], 100)),
              RMul(r.readability_metrics.readability_score, Rat(w[2], 100))),
         RMul(Num(structure_score), Rat(w[3], 100)))

\* C23: overall_score is keyword_score*w_k + readability_score*w_r +
\* structure_score*w_s for a structure score between 0 and 100, with the
\* weights (0.3, 0.3, 0.4) for blog_post, (0.4, 0.2, 0.4) for landing_page,
\* (0.5, 0.2, 0.3) for product_description and (0.33, 0.33, 0.34) for every
\* other content type, the content type being the value of a ContentType
\* member as a ContentRequest holds it.
C23_WeightedOverallScore ==
    Analyzed =>
        \E structure_score \in 0..100 :
            az.result[1].overall_score =
                WeightedSum(az.result[1], StatedWeights(az.content_type), structure_score)

\* A product description with keyword points and structure points was scored.
C23_Witness ==
    /\ Analyzed
    /\ az.content_type = ContentTypeValue("PRODUCT_DESCRIPTION")
    /\ az.result[1].keyword_metrics.keyword_score.n > 0
    /\ az.result[1].structure_metrics.has_title
    /\ az.result[1].overall_score.n > 0

\* The structure score as the sum of the stated points.
StatedStructureScore(m) ==
    (IF m.has_title THEN 15 ELSE 0)
    + (IF m.title_length \in 40..60 THEN 10 ELSE IF m.title_length >= 1 THEN 5 ELSE 0)
    + (IF m.h2_count >= 2 THEN 10 ELSE IF m.h2_count >= 1 THEN 5 ELSE 0)
    + (IF m.h3_count >= 2 THEN 5 ELSE 0)
    + (IF m.has_meta_description THEN 15 ELSE 0)
    + (IF m.has_image_alt THEN 10 ELSE 0)
    + (IF m.has_internal_links THEN 10 ELSE 0)
    + (IF m.has_external_links THEN 10 ELSE 0)

\* C24: the structure score that enters overall_score is the sum of +15 for
\* a title, +10 for a title of 40 to 60 characters and else +5 for a
\* non-empty title, +10 for two h2 and else +5 for one, +5 for two h3, +15
\* for the meta-description marker, +10 each for image alt, internal link
\* and external link; it never exceeds 85.
C24_StructureScore ==
    Analyzed =>
        \E structure_score \in {StatedStructureScore(az.result[1].structure_metrics)} :
            /\ structure_score <= 85
            /\ az.result[1].overall_score =
                   WeightedSum(az.result[1], StatedWeights(az.content_type), structure_score)

\* A text with every structure element was scored: all the points, 85.
C24_Witness ==
    /\ Analyzed
    /\ StatedStructureScore(az.result[1].structure_metrics) = 85
    /\ az.result[1].structure_metrics.title_length \in 40..60
    /\ az.result[1].structure_metrics.h3_count >= 2

\* ------------------------------------------------- content-length advice
LengthRecommendations(id) ==
    {i \in 1..Len(az.result[1].recommendations) : az.result[1].recommendations[i].id = id}

\* C25: the increase-content-length recommendation is emitted for blog_post
\* exactly when the text has fewer than 1000 words, for landing_page exactly
\* when it has fewer than 500, never for another content type, and the word
\* count it reports is the word count of the text.
C25_LengthRecommendation ==
    Analyzed =>
        \E word_count \in {az.result[1].word_count} :
            /\ LengthRecommendations("increase_length_1000") # {}
                   <=> (az.content_type = "blog_post" /\ word_count < 1000)
            /\ LengthRecommendations("increase_length_500") # {}
                   <=> (az.content_type = "landing_page" /\ word_count < 500)
            /\ \A i \in LengthRecommendations("increase_length_1000")
                        \cup LengthRecommendations("increase_length_500") :
                   az.result[1].recommendations[i].value = Num(word_count)

\* ------------------------------------------------------ title and headings
\* The first non-empty line of the text (no line when there is none).
FirstNonEmptyLine(text) ==
    LET idx == {i \in 1..Len(text) : text[i] # <<>>}
    IN IF idx = {} THEN <<>> ELSE text[CHOOSE i \in idx : \A j \in idx : i <= j]

\* C26: in_title is true exactly when the keyword occurs, case-insensitively,
\* in the title, the first non-empty line of the text; a keyword in the
\* first level-1 heading is in_title also when blank lines precede the
\* heading; in_headings is true exactly when the keyword occurs in a
\* level-2 or level-3 heading.
C26_TitleAndHeadings ==
    Analyzed =>
        \A kw \in DOMAIN az.result[1].keyword_metrics.keywords :
            \E m \in {az.result[1].keyword_metrics.keywords[kw]} :
                /\ m.in_title <=> KwInLine(kw, FirstNonEmptyLine(az.content))
                /\ (Headings(az.content, {"#"}) # <<>>
                    /\ KwInLine(kw, Headings(az.content, {"#"})[1])) => m.in_title
                /\ m.in_headings <=> KwInLines(kw, Headings(az.content, {"##", "###"}))

\* ------------------------------------------------------------ keyword score
\* The points of one keyword as stated, the density taken from its value.
StatedKeywordPoints(m) ==
    (IF m.count > 0 THEN 1 ELSE 0) + (IF m.in_title THEN 2 ELSE 0)
    + (IF m.in_headings THEN 1 ELSE 0) + (IF m.in_first_paragraph THEN 1 ELSE 0)
    + (IF RLe(Rat(1, 2), m.density) /\ RLe(m.density, Rat(5, 2)) THEN 1 ELSE 0)

\* C27: keyword_score is 100 * P / (n * 6), n the number of distinct
\* keywords (the entries of the mapping) and P the sum over them of +1 for
\* count > 0, +2 for in_title, +1 for in_headings, +1 for
\* in_first_paragraph, +1 for a density in [0.5, 2.5]; an empty keyword
\* list gives the empty mapping and the score 0, and nothing raises.
C27_KeywordScore ==
    az.pc = "done" =>
        /\ Analyzed
        /\ \E kws \in {az.result[1].keyword_metrics.keywords} :
               /\ DOMAIN kws = InputKeywords
               /\ IF az.target_keywords = <<>>
                  THEN az.result[1].keyword_metrics.keyword_score = Num(0)
                  ELSE \E P \in {SumValues([kw \in DOMAIN kws |-> StatedKeywordPoints(kws[kw])])} :
                           az.result[1].keyword_metrics.keyword_score =
                               RDiv(Num(100 * P), Num(Cardinality(DOMAIN kws) * 6))

\* Two distinct keywords, one of them in the title, the other not, were
\* scored: the score lies strictly between 0 and 100.
C27_Witness ==
    /\ Analyzed
    /\ \E kws \in {az.result[1].keyword_metrics.keywords} :
           /\ Cardinality(DOMAIN kws) = 2
           /\ \E k1, k2 \in DOMAIN kws : kws[k1].in_title /\ ~kws[k2].in_title
    /\ az.result[1].keyword_metrics.keyword_score.n > 0
    /\ RLt(az.result[1].keyword_metrics.keyword_score, Num(100))

\* ------------------------------------------------------ content is kept
\* generate_content produced a non-empty text in this run.
ContentGenerated ==
    /\ \E i \in 1..Len(trace) :
           trace[i].stage = "generate_content" /\ trace[i].status = "content_generated"
    /\ Truthy(state.content)

\* C28: when generate_content produced non-empty content, the returned
\* ContentResponse has non-empty content, whatever the enhancement and the
\* optimization did afterwards.
C28_GeneratedContentReturned ==
    (Returned /\ ContentGenerated) => Truthy(response[1].content)

\* The enhancement and the optimization both returned empty text and the
\* response fell back to the generated content.
C28_Witness ==
    /\ Returned
    /\ ContentGenerated
    /\ Len(modelCalls) = 3
    /\ modelCalls[2].out = ""
    /\ modelCalls[3].out = ""
    /\ response[1].content = state.content

\* ------------------------------------------------------ status and error
FinalStatuses ==
    {"seo_optimization_skipped", "seo_optimization_completed", "seo_optimization_failed"}

\* C29: every stage overwrites status, so a completed run ends with status
\* seo_optimization_skipped, seo_optimization_completed or
\* seo_optimization_failed whichever earlier stage failed; the error field,
\* once set, is never cleared by a later stage.
C29_StatusOverwrittenErrorKept ==
    /\ [](trace # <<>> => state.status = trace[Len(trace)].status)
    /\ [](pc \in {"END", "done"} => state.status \in FinalStatuses)
    /\ [][state.error # None => state'.error # None]_vars

\* A run whose research failed completed with a successful optimization: the
\* status is that of the last stage, the error is still set.
C29_Witness ==
    /\ pc = "done"
    /\ trace[1].status = "research_failed"
    /\ state.status = "seo_optimization_completed"
    /\ state.error # None

\* ------------------------------------------------------ collaborator calls
ModelStages == <<"generate_content", "enhance_content", "optimize_seo">>

\* The position of a stage among the stages that invoke the model.
ModelStageIndex(stage) == CHOOSE k \in 1..Len(ModelStages) : ModelStages[k] = stage

\* C30: in a run the model is invoked at most three times, at most once by
\* each of generate_content, enhance_content and optimize_seo and in that
\* order, and the search at most once, before any model call.
C30_CollaboratorCalls ==
    /\ [](/\ Len(modelCalls) <= 3
          /\ \A i \in 1..Len(modelCalls) :
                \E k \in 1..Len(ModelStages) : ModelStages[k] = modelCalls[i].stage
          /\ \A i, j \in 1..Len(modelCalls) :
                i < j => ModelStageIndex(modelCalls[i].stage) < ModelStageIndex(modelCalls[j].stage)
          /\ Len(searchCalls) <= 1)
    /\ [][searchCalls' # searchCalls => (modelCalls = <<>> /\ modelCalls' = <<>>)]_vars

\* A run searched once and then invoked the model in all three stages.
C30_Witness ==
    /\ pc = "done"
    /\ Len(searchCalls) = 1
    /\ Len(modelCalls) = 3
    /\ modelCalls[1].stage = "generate_content"
    /\ modelCalls[3].stage = "optimize_seo"
====
